---- MODULE Spec2Model ----
(***************************************************************************)
(* Model of server.js: the in-memory poll store (polls, codeToPoll), the   *)
(* Socket.IO command handlers and the poll_updated broadcast.              *)
(*                                                                         *)
(* JavaScript numbers are kept in units of one half, so that 0.5 and 1.5   *)
(* are representable: the number x is the integer 2*x.  A JavaScript value *)
(* sent by a client is a record [k |-> kind, ...]:                         *)
(*   [k |-> "num", h |-> 2*x]   the number x                               *)
(*   [k |-> "str", s |-> text]  a string                                   *)
(*   [k |-> "bool", b |-> ...]  a boolean                                  *)
(*   [k |-> "undef"]            undefined / missing                        *)
(* Non-ASCII string literals of the source are transliterated.             *)
(*                                                                         *)
(* protoCode is the property code of the function object that an array     *)
(* hands out for an inherited key (update_voter can assign it); "" until   *)
(* it is assigned.  stale[c] is the list of voters that client c last      *)
(* looked at and against which it picks the index of its next command.     *)
(***************************************************************************)
EXTENDS Integers, Sequences, FiniteSets, TLC

VARIABLES polls, codeToPoll, rooms, view, uidCount, protoCode, stale, cmd, ack, bcast

vars == <<polls, codeToPoll, rooms, view, uidCount, protoCode, stale, cmd, ack, bcast>>

(* ---------------- bounds of the model ---------------- *)
NumClients == 2
NumRandCodes == 3
\* SpecCodes: two polls and the voters added to them
CodePolls == 2
CodeVoters == 2
\* Spec: every handler, two clients
MaxPolls == 1
MaxUid == 2
MaxOptions == 1
MaxVoters == 1
\* SpecBudget: one poll, the coins of its voters and their votes
BudgetPolls == 1
BudgetVoters == 2
\* SpecIso: two polls, each with at most one option and one voter
IsoPolls == 2
IsoOptions == 1
IsoVoters == 1
\* SpecRace: one poll with up to three voters, two clients
RacePolls == 1
RaceVoters == 3
\* SpecIndex: the voters of a poll, addressed by index
IndexPolls == 1
IndexVoters == 2
\* SpecVote: one poll, its options, one voter, the votes
VotePolls == 1
VoteOptions == 2
VoteVoters == 1

Clients == 1..NumClients

\* the upper clamp of bulk_add_voters
MaxBulk == 200

(* ---------------- JavaScript values ---------------- *)
jsNum(h) == [k |-> "num", h |-> h]
jsStr(s) == [k |-> "str", s |-> s]
jsBool(b) == [k |-> "bool", b |-> b]
jsUndef == [k |-> "undef"]

EmptyMap == [x \in {} |-> 0]

Max(a, b) == IF a >= b THEN a ELSE b
Min(a, b) == IF a <= b THEN a ELSE b

\* Math.floor on a number in halves: the result is again in halves.
MathFloor(h) == 2 * (h \div 2)

\* the strings that Number() parses to a number; every other string is NaN
ParseNumber(s) ==
  CASE s = "3"   -> 6
    [] s = "0.5" -> 1
    [] s = ""    -> 0
    [] OTHER     -> 0

IsNumeric(s) == s \in {"3", "0.5", ""}

\* Number(v) is NaN
IsNaN(v) ==
  CASE v.k = "num"  -> FALSE
    [] v.k = "str"  -> ~IsNumeric(v.s)
    [] v.k = "bool" -> FALSE
    [] OTHER        -> TRUE

\* Number(v) || d : NaN and 0 are falsy
NumberOr(v, d) ==
  LET n == CASE v.k = "num"  -> v.h
             [] v.k = "str"  -> ParseNumber(v.s)
             [] v.k = "bool" -> IF v.b THEN 2 ELSE 0
             [] OTHER        -> 0
  IN IF IsNaN(v) \/ n = 0 THEN d ELSE n

\* !!v
Truthy(v) ==
  CASE v.k = "num"  -> v.h # 0
    [] v.k = "str"  -> v.s # ""
    [] v.k = "bool" -> v.b
    [] OTHER        -> FALSE

\* String(v || ""), on the numbers 1, 1.5, 3, 10 and -1
StringOrEmpty(v) ==
  IF ~Truthy(v) THEN ""
  ELSE CASE v.k = "str"  -> v.s
         [] v.k = "bool" -> "true"
         [] v.k = "num"  -> CASE v.h = 2 -> "1" [] v.h = 3 -> "1.5" [] v.h = 6 -> "3"
                                 [] v.h = 20 -> "10" [] OTHER -> "-1"
         [] OTHER        -> ""

\* String.prototype.toUpperCase on the strings of the model
toUpperCase(s) ==
  CASE s = "x1"  -> "X1"
    [] s = "v-1" -> "V-1"
    [] s = "v-2" -> "V-2"
    [] s = "zz"  -> "ZZ"
    [] OTHER     -> s

(* ---------------- helpers of server.js ---------------- *)
\* uid(): the n-th identifier handed out; never repeats
uid(n) == "u" \o ToString(n)

\* the values randCode() can return
RandCodes == {"V-" \o ToString(i) : i \in 1..NumRandCodes}

\* (mutant) the preferred code is returned without the loop over taken codes
ensureCodeUnique_NoLoop(code, map) ==
  IF code # "" THEN {toUpperCase(code)} ELSE RandCodes \ DOMAIN map

\* ensureCodeUnique(code): the values the function can return.  code = "" stands
\* for a missing or falsy argument.  The loop ends only on a code that is not a
\* key of codeToPoll; every later candidate is a randCode().
\* map is codeToPoll at the time of the call.
ensureCodeUnique(code, map) ==
  LET first == IF code # "" THEN {toUpperCase(code)} ELSE RandCodes
  IN (first \cup (IF first \subseteq DOMAIN map THEN RandCodes ELSE {}))
        \ DOMAIN map

\* Map.set / object property assignment
Put(f, k, v) == [x \in DOMAIN f \cup {k} |-> IF x = k THEN v ELSE f[x]]

\* Map.delete / delete obj[k]
Del(f, k) == [x \in DOMAIN f \ {k} |-> f[x]]

\* n >= 0 in place of n > 0: entries of amount zero are kept
cleanAllocations_KeepZero(alloc) ==
  IF ~alloc.obj THEN EmptyMap
  ELSE [key \in {x \in DOMAIN alloc.e : NumberOr(alloc.e[x], 0) >= 0}
          |-> MathFloor(NumberOr(alloc.e[key], 0))]

\* cleanAllocations(alloc): alloc is [obj |-> is it a non-null object, e |-> entries]
cleanAllocations(alloc) ==
  IF ~alloc.obj THEN EmptyMap
  ELSE [key \in {x \in DOMAIN alloc.e : NumberOr(alloc.e[x], 0) > 0}
          |-> MathFloor(NumberOr(alloc.e[key], 0))]

\* a stored allocation read back as a client payload
AsPayload(a) == [obj |-> TRUE, e |-> [x \in DOMAIN a |-> jsNum(a[x])]]

NoAck == [t |-> "none"]
AckNull == [t |-> "null"]
AckPoll(p) == [t |-> "poll", poll |-> p]
AckOk == [t |-> "result", ok |-> TRUE]
AckError(err) == [t |-> "result", ok |-> FALSE, error |-> err]

\* (mutant) the snapshot is emitted to every connected socket, not to the room
broadcastPoll_Global(pollId, P) ==
  IF pollId \notin DOMAIN P
  THEN bcast' = <<>> /\ view' = view
  ELSE /\ bcast' = <<[room |-> pollId, poll |-> P[pollId]]>>
       /\ view' = [c \in Clients |-> Put(view[c], pollId, P[pollId])]

\* broadcastPoll(pollId), P being the polls map when it is called: the emission
\* to room "poll:"+pollId and its delivery to every socket in the room.
broadcastPoll(pollId, P) ==
  IF pollId \notin DOMAIN P
  THEN bcast' = <<>> /\ view' = view
  ELSE /\ bcast' = <<[room |-> pollId, poll |-> P[pollId]]>>
       /\ view' = [c \in Clients |->
                     IF pollId \in rooms[c] THEN Put(view[c], pollId, P[pollId])
                     ELSE view[c]]

\* a handler that returns without touching the store and without emitting
NoEffect == UNCHANGED <<polls, codeToPoll, rooms, view, uidCount, protoCode, stale>> /\ bcast' = <<>>

Init ==
  /\ polls = EmptyMap
  /\ codeToPoll = EmptyMap
  /\ rooms = [c \in Clients |-> {}]
  /\ view = [c \in Clients |-> EmptyMap]
  /\ uidCount = 0
  /\ protoCode = ""
  /\ stale = [c \in Clients |-> <<>>]
  /\ cmd = [op |-> "init"]
  /\ ack = NoAck
  /\ bcast = <<>>

(* ---------------- handlers ---------------- *)
create_poll(c) ==
  /\ LET id == uid(uidCount + 1)
         poll == [id |-> id, title |-> "", status |-> "draft", options |-> <<>>,
                  voters |-> <<>>, votes |-> EmptyMap]
     IN /\ polls' = Put(polls, id, poll)
        /\ rooms' = [rooms EXCEPT ![c] = @ \cup {id}]
        /\ ack' = AckPoll(poll)
        /\ view' = [view EXCEPT ![c] = Put(@, id, poll)]
  /\ uidCount' = uidCount + 1
  /\ cmd' = [op |-> "create_poll", client |-> c]
  /\ bcast' = <<>>
  /\ UNCHANGED <<codeToPoll, protoCode, stale>>

join_poll(c, id) ==
  /\ cmd' = [op |-> "join_poll", client |-> c, id |-> id]
  /\ IF id \notin DOMAIN polls
     THEN ack' = AckNull /\ NoEffect
     ELSE /\ rooms' = [rooms EXCEPT ![c] = @ \cup {id}]
          /\ ack' = AckPoll(polls[id])
          /\ view' = [view EXCEPT ![c] = Put(@, id, polls[id])]
          /\ bcast' = <<>>
          /\ UNCHANGED <<polls, codeToPoll, uidCount, protoCode, stale>>

get_poll(id) ==
  /\ cmd' = [op |-> "get_poll", id |-> id]
  /\ ack' = IF id \in DOMAIN polls THEN AckPoll(polls[id]) ELSE AckNull
  /\ NoEffect

get_poll_by_code(code) ==
  /\ cmd' = [op |-> "get_poll_by_code", code |-> code]
  /\ LET c == toUpperCase(code)
     IN ack' = IF c \in DOMAIN codeToPoll /\ codeToPoll[c] \in DOMAIN polls
               THEN AckPoll(polls[codeToPoll[c]]) ELSE AckNull
  /\ NoEffect

\* (mutant) the title is replaced and nobody is told
set_title_Silent(id, title) ==
  /\ cmd' = [op |-> "set_title", id |-> id, title |-> title]
  /\ ack' = NoAck
  /\ IF id \notin DOMAIN polls THEN NoEffect
     ELSE /\ polls' = [polls EXCEPT ![id].title = title]
          /\ bcast' = <<>>
          /\ UNCHANGED <<codeToPoll, rooms, view, uidCount, protoCode, stale>>

set_title(id, title) ==
  /\ cmd' = [op |-> "set_title", id |-> id, title |-> title]
  /\ ack' = NoAck
  /\ IF id \notin DOMAIN polls THEN NoEffect
     ELSE /\ polls' = [polls EXCEPT ![id].title = title]
          /\ broadcastPoll(id, polls')
          /\ UNCHANGED <<codeToPoll, rooms, uidCount, protoCode, stale>>

\* (mutant) no test of the value: any status is stored
ValidStatus_Any(status) == TRUE

\* status==="open" || status==="closed" || status==="draft"
ValidStatus(status) == status = "open" \/ status = "closed" \/ status = "draft"

set_status(id, status) ==
  /\ cmd' = [op |-> "set_status", id |-> id, status |-> status]
  /\ ack' = NoAck
  /\ IF id \notin DOMAIN polls THEN NoEffect
     ELSE IF ValidStatus(status)
     THEN /\ polls' = [polls EXCEPT ![id].status = status]
          /\ broadcastPoll(id, polls')
          /\ UNCHANGED <<codeToPoll, rooms, uidCount, protoCode, stale>>
     ELSE NoEffect

\* payload field f of a partial object, or d when the field is missing
Field(obj, f, d) == IF f \in DOMAIN obj THEN obj[f] ELSE d

\* add_option: opt is a partial object over {id, label}; ids and labels are strings
add_option(id, opt) ==
  /\ cmd' = [op |-> "add_option", id |-> id, opt |-> opt]
  /\ ack' = NoAck
  /\ IF id \notin DOMAIN polls THEN NoEffect
     ELSE LET given == Field(opt, "id", "") # ""
              option == IF given THEN [id |-> opt.id, label |-> Field(opt, "label", "")]
                        ELSE [id |-> uid(uidCount + 1), label |-> "Novyj variant"]
          IN /\ uidCount' = IF given THEN uidCount ELSE uidCount + 1
             /\ polls' = [polls EXCEPT ![id].options = Append(@, option)]
             /\ broadcastPoll(id, polls')
             /\ UNCHANGED <<codeToPoll, rooms, protoCode, stale>>

update_option(id, optId, label) ==
  /\ cmd' = [op |-> "update_option", id |-> id, optId |-> optId, label |-> label]
  /\ ack' = NoAck
  /\ IF id \notin DOMAIN polls THEN NoEffect
     ELSE LET opts == polls[id].options
              found == {i \in 1..Len(opts) : opts[i].id = optId}
          IN IF found = {} THEN NoEffect
             ELSE LET i == CHOOSE j \in found : \A m \in found : j <= m
                  IN /\ polls' = [polls EXCEPT ![id].options[i].label = label]
                     /\ broadcastPoll(id, polls')
                     /\ UNCHANGED <<codeToPoll, rooms, uidCount, protoCode, stale>>

\* the option is removed but the allocations are not purged
delete_option_NoPurge(id, optId) ==
  /\ cmd' = [op |-> "delete_option", id |-> id, optId |-> optId]
  /\ ack' = NoAck
  /\ IF id \notin DOMAIN polls THEN NoEffect
     ELSE LET keep(x) == x.id # optId
          IN /\ polls' = [polls EXCEPT ![id].options = SelectSeq(@, keep)]
             /\ broadcastPoll(id, polls')
             /\ UNCHANGED <<codeToPoll, rooms, uidCount, protoCode, stale>>

delete_option(id, optId) ==
  /\ cmd' = [op |-> "delete_option", id |-> id, optId |-> optId]
  /\ ack' = NoAck
  /\ IF id \notin DOMAIN polls THEN NoEffect
     ELSE LET keep(x) == x.id # optId   \* Array.prototype.filter
          IN /\ polls' = [polls EXCEPT
                  ![id].options = SelectSeq(@, keep),
                  ![id].votes = [code \in DOMAIN @ |-> Del(@[code], optId)]]
             /\ broadcastPoll(id, polls')
             /\ UNCHANGED <<codeToPoll, rooms, uidCount, protoCode, stale>>

clear_options(id) ==
  /\ cmd' = [op |-> "clear_options", id |-> id]
  /\ ack' = NoAck
  /\ IF id \notin DOMAIN polls THEN NoEffect
     ELSE /\ polls' = [polls EXCEPT
               ![id].options = <<>>,
               ![id].votes = [code \in DOMAIN @ |-> EmptyMap]]
          /\ broadcastPoll(id, polls')
          /\ UNCHANGED <<codeToPoll, rooms, uidCount, protoCode, stale>>

\* (mutant) the code is registered before the poll is looked up
add_voter_RegistersFirst(id, voter) ==
  /\ cmd' = [op |-> "add_voter", id |-> id, voter |-> voter]
  /\ ack' = NoAck
  /\ \E code \in ensureCodeUnique(Field(voter, "code", ""), codeToPoll) :
       /\ codeToPoll' = Put(codeToPoll, code, id)
       /\ IF id \notin DOMAIN polls
          THEN UNCHANGED <<polls, view>> /\ bcast' = <<>>
          ELSE LET v == [name |-> Field(voter, "name", "Uchastnik"),
                         coins |-> Max(0, NumberOr(Field(voter, "coins", jsNum(20)), 0)),
                         code |-> code,
                         submitted |-> Truthy(Field(voter, "submitted", jsBool(FALSE)))]
               IN /\ polls' = [polls EXCEPT ![id].voters = Append(@, v)]
                  /\ broadcastPoll(id, polls')
  /\ UNCHANGED <<rooms, uidCount, protoCode, stale>>

\* add_voter: voter is a partial object over {name, coins, code, submitted};
\* name and code are strings, coins and submitted are JavaScript values
add_voter(id, voter) ==
  /\ cmd' = [op |-> "add_voter", id |-> id, voter |-> voter]
  /\ ack' = NoAck
  /\ IF id \notin DOMAIN polls THEN NoEffect
     ELSE /\ \E code \in ensureCodeUnique(Field(voter, "code", ""), codeToPoll) :
               LET v == [name |-> Field(voter, "name", "Uchastnik"),
                         coins |-> Max(0, NumberOr(Field(voter, "coins", jsNum(20)), 0)),
                         code |-> code,
                         submitted |-> Truthy(Field(voter, "submitted", jsBool(FALSE)))]
               IN /\ polls' = [polls EXCEPT ![id].voters = Append(@, v)]
                  /\ codeToPoll' = Put(codeToPoll, code, id)
          /\ broadcastPoll(id, polls')
          /\ UNCHANGED <<rooms, uidCount, protoCode, stale>>

\* the number of times the loop for(i=0;i<n;i++) runs, n in halves
Iterations(n) == (n + 1) \div 2

\* the sequences of codes that n successive ensureCodeUnique() calls can return,
\* each registered in the reverse index before the next call
RECURSIVE FreshCodes(_, _)
FreshCodes(n, map) ==
  IF n = 0 THEN {<<>>}
  ELSE UNION {{<<c>> \o rest : rest \in FreshCodes(n - 1, Put(map, c, ""))}
                : c \in ensureCodeUnique("", map)}

bulk_add_voters(id, count, coins) ==
  /\ cmd' = [op |-> "bulk_add_voters", id |-> id, count |-> count, coins |-> coins]
  /\ ack' = NoAck
  /\ IF id \notin DOMAIN polls THEN NoEffect
     ELSE LET n == Max(2, Min(NumberOr(count, 2), 2 * MaxBulk))
              c == Max(0, NumberOr(coins, 20))
              len == Len(polls[id].voters)
          IN /\ Iterations(n) <= Cardinality(RandCodes \ DOMAIN codeToPoll)
             /\ \E codes \in FreshCodes(Iterations(n), codeToPoll) :
                  /\ polls' = [polls EXCEPT ![id].voters = @ \o
                        [i \in 1..Iterations(n) |->
                           [name |-> "Uchastnik " \o ToString(len + i), coins |-> c,
                            code |-> codes[i], submitted |-> FALSE]]]
                  /\ codeToPoll' = [x \in DOMAIN codeToPoll \cup {codes[i] : i \in 1..Len(codes)}
                                      |-> IF x \in DOMAIN codeToPoll THEN codeToPoll[x] ELSE id]
             /\ broadcastPoll(id, polls')
             /\ UNCHANGED <<rooms, uidCount, protoCode, stale>>

\* the string keys of the model that name a property every array inherits:
\* p.voters["push"] is the function Array.prototype.push, one object shared by
\* every array of the process
InheritedKeys == {"push"}

\* (mutant) the positions are counted from one: index 1 reads the first voter
VoterAt_OneBased(voters, index) ==
  IF index.k = "str" /\ index.s \in InheritedKeys THEN -1
  ELSE IF index.k = "num" /\ index.h % 2 = 0 /\ index.h >= 2 /\ index.h \div 2 <= Len(voters)
  THEN index.h \div 2 ELSE 0

\* p.voters[index]: the 1-based position of the element read, 0 when the read
\* gives undefined, -1 when it gives the inherited function object.
\* index is a JavaScript number, undefined, or a string that is not numeric.
VoterAt(voters, index) ==
  IF index.k = "str" /\ index.s \in InheritedKeys THEN -1
  ELSE IF index.k = "num" /\ index.h % 2 = 0 /\ index.h >= 0 /\ index.h \div 2 < Len(voters)
  THEN index.h \div 2 + 1 ELSE 0

\* ToIntegerOrInfinity: truncation toward zero; undefined and NaN are 0
ToInteger(index) ==
  IF index.k # "num" THEN 0
  ELSE IF index.h >= 0 THEN index.h \div 2 ELSE -((-index.h) \div 2)

\* Array.prototype.splice(index, 1)
Splice1(seq, index) ==
  LET rel == ToInteger(index)
      start == IF rel < 0 THEN Max(Len(seq) + rel, 0) ELSE Min(rel, Len(seq))
  IN [i \in 1..(IF start < Len(seq) THEN Len(seq) - 1 ELSE Len(seq))
        |-> IF i <= start THEN seq[i] ELSE seq[i + 1]]

\* update_voter.  v is a voter (i > 0) or the inherited function object (i = -1),
\* whose property code is protoCode; its other assigned properties are never
\* read.  Assigning name to a function throws (the property is read-only in
\* strict mode) and the handler ends there.
update_voter(id, index, field, value) ==
  /\ cmd' = [op |-> "update_voter", id |-> id, index |-> index, field |-> field,
             value |-> value]
  /\ ack' = NoAck
  /\ IF id \notin DOMAIN polls THEN NoEffect
     ELSE LET i == VoterAt(polls[id].voters, index)
          IN IF i = 0 \/ (i = -1 /\ field = "name") THEN NoEffect
             ELSE /\ IF field = "code"
                     THEN LET old == toUpperCase(IF i = -1 THEN protoCode
                                                 ELSE polls[id].voters[i].code)
                              released == IF old # "" THEN Del(codeToPoll, old)
                                          ELSE codeToPoll
                          IN \E newCode \in ensureCodeUnique(StringOrEmpty(value), released) :
                               /\ polls' = IF i = -1 THEN polls
                                           ELSE [polls EXCEPT ![id].voters[i].code = newCode]
                               /\ protoCode' = IF i = -1 THEN newCode ELSE protoCode
                               /\ codeToPoll' = Put(released, newCode, id)
                     ELSE /\ codeToPoll' = codeToPoll
                          /\ protoCode' = protoCode
                          /\ polls' =
                               CASE i = -1 -> polls
                                 [] field = "coins" ->
                                      [polls EXCEPT ![id].voters[i].coins =
                                                       Max(0, NumberOr(value, 0))]
                                 [] field = "name" ->
                                      [polls EXCEPT ![id].voters[i].name =
                                                       StringOrEmpty(value)]
                                 [] field = "submitted" ->
                                      [polls EXCEPT ![id].voters[i].submitted =
                                                       Truthy(value)]
                                 [] OTHER -> polls
                  /\ broadcastPoll(id, polls')
                  /\ UNCHANGED <<rooms, uidCount, stale>>

\* delete_voter: the code is read from p.voters[index], the voter is removed by
\* splice(index, 1)
delete_voter(id, index) ==
  /\ cmd' = [op |-> "delete_voter", id |-> id, index |-> index]
  /\ ack' = NoAck
  /\ IF id \notin DOMAIN polls THEN NoEffect
     ELSE LET i == VoterAt(polls[id].voters, index)
              code == IF i = 0 THEN ""
                      ELSE IF i = -1 THEN protoCode ELSE polls[id].voters[i].code
          IN /\ codeToPoll' = IF code # "" THEN Del(codeToPoll, toUpperCase(code))
                              ELSE codeToPoll
             /\ polls' = [polls EXCEPT ![id].voters = Splice1(@, index)]
             /\ broadcastPoll(id, polls')
             /\ UNCHANGED <<rooms, uidCount, protoCode, stale>>

reset_submits(id) ==
  /\ cmd' = [op |-> "reset_submits", id |-> id]
  /\ ack' = NoAck
  /\ IF id \notin DOMAIN polls THEN NoEffect
     ELSE /\ polls' = [polls EXCEPT
               ![id].votes = EmptyMap,
               ![id].voters = [i \in 1..Len(@) |-> [@[i] EXCEPT !.submitted = FALSE]]]
          /\ broadcastPoll(id, polls')
          /\ UNCHANGED <<codeToPoll, rooms, uidCount, protoCode, stale>>

\* a missing test of the status: every poll accepts votes
IsClosed_Never(p) == FALSE

\* p.status === "closed"
IsClosed(p) == p.status = "closed"

\* the predicate of find() assigns instead of comparing: the first voter matches
FindVoter_First(voters, code) == IF Len(voters) > 0 THEN 1 ELSE 0

\* p.voters.find(v => upper(v.code) === upper(code)): the 1-based position of
\* the first match, 0 when there is none
FindVoter(voters, code) ==
  LET found == {i \in 1..Len(voters) : toUpperCase(voters[i].code) = toUpperCase(code)}
  IN IF found = {} THEN 0 ELSE CHOOSE j \in found : \A m \in found : j <= m

\* (mutant) the new allocation is merged into the one already stored under the
\* code instead of replacing it
submit_vote_Merge(id, code, allocations) ==
  /\ cmd' = [op |-> "submit_vote", id |-> id, code |-> code,
             allocations |-> allocations]
  /\ IF id \notin DOMAIN polls THEN ack' = AckError("not found") /\ NoEffect
     ELSE IF IsClosed(polls[id]) THEN ack' = AckError("closed") /\ NoEffect
     ELSE LET clean == cleanAllocations(allocations)
              voter == FindVoter(polls[id].voters, code)
              key == toUpperCase(code)
              prior == IF key \in DOMAIN polls[id].votes THEN polls[id].votes[key]
                       ELSE EmptyMap
              merged == [k \in DOMAIN prior \cup DOMAIN clean |->
                           IF k \in DOMAIN clean THEN clean[k] ELSE prior[k]]
          IN /\ polls' = [polls EXCEPT
                  ![id].votes = Put(@, key, merged),
                  ![id].voters = IF voter = 0 THEN @
                                 ELSE [@ EXCEPT ![voter].submitted = TRUE]]
             /\ broadcastPoll(id, polls')
             /\ ack' = AckOk
             /\ UNCHANGED <<codeToPoll, rooms, uidCount, protoCode, stale>>

\* submit_vote: code is a string ("" when missing), allocations a payload
submit_vote(id, code, allocations) ==
  /\ cmd' = [op |-> "submit_vote", id |-> id, code |-> code,
             allocations |-> allocations]
  /\ IF id \notin DOMAIN polls THEN ack' = AckError("not found") /\ NoEffect
     ELSE IF IsClosed(polls[id]) THEN ack' = AckError("closed") /\ NoEffect
     ELSE LET clean == cleanAllocations(allocations)
              voter == FindVoter(polls[id].voters, code)
          IN /\ polls' = [polls EXCEPT
                  ![id].votes = Put(@, toUpperCase(code), clean),
                  ![id].voters = IF voter = 0 THEN @
                                 ELSE [@ EXCEPT ![voter].submitted = TRUE]]
             /\ broadcastPoll(id, polls')
             /\ ack' = AckOk
             /\ UNCHANGED <<codeToPoll, rooms, uidCount, protoCode, stale>>

(* ---------------- inputs and bounds of the specifications ---------------- *)
PollIds == DOMAIN polls \cup {"nope"}

\* the guards that keep the model finite: P polls, O options, V voters in a poll
CanCreate(P) == Cardinality(DOMAIN polls) < P
CanAddOption(id, O) == id \in DOMAIN polls => Len(polls[id].options) < O
CanAddVoters(id, V, count) ==
  id \in DOMAIN polls =>
     Len(polls[id].voters) + Iterations(Max(2, Min(NumberOr(count, 2), 2 * MaxBulk))) <= V

\* {o1: "3", o2: -5, junk: 2}, {o1: 0.5, o2: 1.5}, {o2: "abc", junk: 0}, and a
\* payload that is not an object
VoteAllocs ==
  { [obj |-> TRUE, e |-> [o1 |-> jsStr("3"), o2 |-> jsNum(-10), junk |-> jsNum(4)]],
    [obj |-> TRUE, e |-> [o1 |-> jsNum(1), o2 |-> jsNum(3)]],
    [obj |-> TRUE, e |-> [o2 |-> jsStr("abc"), junk |-> jsNum(0)]],
    [obj |-> FALSE, e |-> EmptyMap] }

NextVote ==
  \/ CanCreate(VotePolls) /\ create_poll(1)
  \/ \E id \in DOMAIN polls, st \in {"draft", "open", "closed", "archived"} : set_status(id, st)
  \/ \E id \in DOMAIN polls, opt \in {[id |-> "o1", label |-> "A"], [id |-> "o2", label |-> "B"]} :
       CanAddOption(id, VoteOptions) /\ add_option(id, opt)
  \/ \E id \in DOMAIN polls, optId \in {"o1", "o2", "junk"} : delete_option(id, optId)
  \/ \E id \in DOMAIN polls : clear_options(id)
  \/ \E id \in DOMAIN polls :
       CanAddVoters(id, VoteVoters, jsNum(2)) /\ add_voter(id, [code |-> "x1"])
  \/ \E id \in DOMAIN polls : reset_submits(id)
  \/ \E id \in DOMAIN polls, code \in {"x1", "X1", "zz"}, a \in VoteAllocs :
       submit_vote(id, code, a)

SpecVote == Init /\ [][NextVote]_vars

(* ---------------- claims checked under SpecVote ---------------- *)

\* C1: immediately after delete_option(X) on an existing poll, no allocation of
\* the poll's votes has a key X, no option of the poll has id X, and every
\* allocation entry under another key is unchanged.
C1_DeleteOptionPurges ==
  [][(cmd'.op = "delete_option" /\ cmd'.id \in DOMAIN polls) =>
       LET before == polls[cmd'.id]
           after == polls'[cmd'.id]
           X == cmd'.optId
       IN /\ \A i \in 1..Len(after.options) : after.options[i].id # X
          /\ DOMAIN after.votes = DOMAIN before.votes
          /\ \A code \in DOMAIN after.votes :
               /\ X \notin DOMAIN after.votes[code]
               /\ DOMAIN after.votes[code] = DOMAIN before.votes[code] \ {X}
               /\ \A k \in DOMAIN after.votes[code] :
                    after.votes[code][k] = before.votes[code][k]]_vars

\* delete_option("o1") has run on a poll that keeps option o2 and a vote whose
\* other entries survived
C1_Witness ==
  /\ cmd.op = "delete_option" /\ cmd.optId = "o1" /\ cmd.id \in DOMAIN polls
  /\ LET p == polls[cmd.id]
     IN /\ \E i \in 1..Len(p.options) : p.options[i].id = "o2"
        /\ \E code \in DOMAIN p.votes : DOMAIN p.votes[code] = {"junk"}

\* C3: submit_vote on an existing closed poll leaves votes and voters unchanged,
\* acknowledges {ok:false, error:"closed"} and emits no broadcast.
C3_ClosedRejects ==
  [][(/\ cmd'.op = "submit_vote"
      /\ cmd'.id \in DOMAIN polls
      /\ polls[cmd'.id].status = "closed") =>
       /\ polls'[cmd'.id].votes = polls[cmd'.id].votes
       /\ polls'[cmd'.id].voters = polls[cmd'.id].voters
       /\ ack' = [t |-> "result", ok |-> FALSE, error |-> "closed"]
       /\ bcast' = <<>>]_vars

\* a vote was refused on a closed poll that has a voter who has not submitted
\* and an earlier vote on record
C3_Witness ==
  /\ cmd.op = "submit_vote" /\ cmd.id \in DOMAIN polls
  /\ ack = [t |-> "result", ok |-> FALSE, error |-> "closed"]
  /\ polls[cmd.id].status = "closed"
  /\ cmd.allocations.obj /\ cmd.code = "x1"
  /\ polls[cmd.id].votes # EmptyMap
  /\ \E i \in 1..Len(polls[cmd.id].voters) : ~polls[cmd.id].voters[i].submitted

\* C4: every amount stored in every allocation of every poll is a strictly
\* positive integer (numbers are in halves: an integer is an even count).
C4_AmountsPositiveIntegers ==
  \A id \in DOMAIN polls : \A code \in DOMAIN polls[id].votes :
    \A k \in DOMAIN polls[id].votes[code] :
      polls[id].votes[code][k] > 0 /\ polls[id].votes[code][k] % 2 = 0

\* C5: every key of every stored allocation is the id of an option currently in
\* the poll's options.
C5_KeysAreOptions ==
  \A id \in DOMAIN polls : \A code \in DOMAIN polls[id].votes :
    \A k \in DOMAIN polls[id].votes[code] :
      \E i \in 1..Len(polls[id].options) : polls[id].options[i].id = k

\* C5 as amended: a successful submit_vote stores exactly the payload's entries
\* whose amount is positive, whatever their key; in any step a key appears in a
\* stored allocation only through a submit_vote for that code.
C5_KeysComeFromPayload ==
  [][\A id \in DOMAIN polls' \cap DOMAIN polls :
       /\ (cmd'.op = "submit_vote" /\ cmd'.id = id /\ ack'.ok) =>
            DOMAIN polls'[id].votes[toUpperCase(cmd'.code)] =
              {k \in (IF cmd'.allocations.obj THEN DOMAIN cmd'.allocations.e ELSE {}) :
                  NumberOr(cmd'.allocations.e[k], 0) > 0}
       /\ \A code \in DOMAIN polls'[id].votes :
            (~(cmd'.op = "submit_vote" /\ cmd'.id = id /\ toUpperCase(cmd'.code) = code)) =>
               /\ code \in DOMAIN polls[id].votes
               /\ DOMAIN polls'[id].votes[code] \subseteq DOMAIN polls[id].votes[code]]_vars

\* a vote was accepted and stored with the key junk, which is no option of the poll
C5_Witness ==
  /\ cmd.op = "submit_vote" /\ cmd.id \in DOMAIN polls /\ ack = AckOk
  /\ LET p == polls[cmd.id]
     IN /\ "junk" \in DOMAIN p.votes[toUpperCase(cmd.code)]
        /\ \E i \in 1..Len(p.options) : p.options[i].id = "o1"
        /\ \A i \in 1..Len(p.options) : p.options[i].id # "junk"

\* C7: submit_vote on an existing poll that is not closed, with a code matching
\* no voter of the poll, stores the sanitized allocation under the upper-cased
\* code, acknowledges {ok:true} and leaves every voter unchanged.
C7_UnknownCodeStored ==
  [][(/\ cmd'.op = "submit_vote"
      /\ cmd'.id \in DOMAIN polls
      /\ polls[cmd'.id].status # "closed"
      /\ \A i \in 1..Len(polls[cmd'.id].voters) :
           toUpperCase(polls[cmd'.id].voters[i].code) # toUpperCase(cmd'.code)) =>
       /\ toUpperCase(cmd'.code) \in DOMAIN polls'[cmd'.id].votes
       /\ polls'[cmd'.id].votes[toUpperCase(cmd'.code)] = cleanAllocations(cmd'.allocations)
       /\ ack' = [t |-> "result", ok |-> TRUE]
       /\ polls'[cmd'.id].voters = polls[cmd'.id].voters]_vars

\* a vote under the unknown code zz was stored as ZZ, non-empty, while the one
\* voter of the poll has still not submitted
C7_Witness ==
  /\ cmd.op = "submit_vote" /\ cmd.code = "zz" /\ cmd.id \in DOMAIN polls
  /\ ack = AckOk
  /\ LET p == polls[cmd.id]
     IN /\ "ZZ" \in DOMAIN p.votes /\ "zz" \notin DOMAIN p.votes
        /\ p.votes["ZZ"] # EmptyMap
        /\ Len(p.voters) = 1 /\ ~p.voters[1].submitted

\* C10: the sanitizer is idempotent: sanitizing the allocation that a successful
\* submit_vote stored gives that allocation back.
C10_SanitizeIdempotent ==
  (cmd.op = "submit_vote" /\ ack = AckOk) =>
     LET stored == polls[cmd.id].votes[toUpperCase(cmd.code)]
     IN /\ stored = cleanAllocations(cmd.allocations)
        /\ cleanAllocations(AsPayload(stored)) = stored

\* C9: set_status with a value outside {draft, open, closed} leaves the poll
\* unchanged and emits no broadcast; with a value in the set it replaces the
\* status, whatever the current one, changes nothing else and emits a broadcast.
C9_SetStatus ==
  [][(cmd'.op = "set_status" /\ cmd'.id \in DOMAIN polls) =>
       IF cmd'.status \in {"draft", "open", "closed"}
       THEN /\ polls'[cmd'.id] = [polls[cmd'.id] EXCEPT !.status = cmd'.status]
            /\ bcast' = <<[room |-> cmd'.id, poll |-> polls'[cmd'.id]]>>
       ELSE /\ polls'[cmd'.id] = polls[cmd'.id]
            /\ bcast' = <<>>]_vars

\* set_status("archived") was sent to a closed poll with options and votes: the
\* poll is still closed and nothing was emitted
C9_Witness ==
  /\ cmd.op = "set_status" /\ cmd.status = "archived" /\ cmd.id \in DOMAIN polls
  /\ polls[cmd.id].status = "closed"
  /\ polls[cmd.id].options # <<>> /\ polls[cmd.id].votes # EmptyMap
  /\ bcast = <<>>

(* ---------------- SpecCodes: voter codes ---------------- *)
CodeVoterPayloads ==
  { EmptyMap,
    [code |-> "x1"],
    [code |-> "X1", coins |-> jsNum(0)],
    [code |-> "v-1", name |-> "Ann", coins |-> jsStr("abc"), submitted |-> jsBool(TRUE)] }

\* counts 0, -3, 2, 500 and a missing count; coins 5, 0, -2 and missing
BulkCounts == {jsNum(0), jsNum(-6), jsNum(4), jsNum(1000), jsUndef}
BulkCoins == {jsNum(10), jsNum(0), jsNum(-4), jsUndef}

NextCodes ==
  \/ CanCreate(CodePolls) /\ create_poll(1)
  \/ \E id \in DOMAIN polls, voter \in CodeVoterPayloads :
       CanAddVoters(id, CodeVoters, jsNum(2)) /\ add_voter(id, voter)
  \/ \E id \in DOMAIN polls, count \in BulkCounts, coins \in BulkCoins :
       CanAddVoters(id, CodeVoters, count) /\ bulk_add_voters(id, count, coins)

SpecCodes == Init /\ [][NextCodes]_vars

\* C2: after any sequence of add_voter and bulk_add_voters calls no two voters
\* anywhere have the same code, and every voter's code is a key of the reverse
\* index.
C2_CodesUnique ==
  \A id \in DOMAIN polls : \A i \in 1..Len(polls[id].voters) :
    /\ polls[id].voters[i].code \in DOMAIN codeToPoll
    /\ \A id2 \in DOMAIN polls : \A j \in 1..Len(polls[id2].voters) :
         (id # id2 \/ i # j) => polls[id].voters[i].code # polls[id2].voters[j].code

\* add_voter asked for x1 while a voter of another poll holds X1, and the new
\* voter got a generated code
C2_Witness ==
  /\ cmd.op = "add_voter" /\ cmd.id \in DOMAIN polls
  /\ "code" \in DOMAIN cmd.voter /\ cmd.voter.code = "x1"
  /\ LET vs == polls[cmd.id].voters
     IN /\ vs[Len(vs)].code \in RandCodes
        /\ \E id \in DOMAIN polls \ {cmd.id} :
             \E j \in 1..Len(polls[id].voters) : polls[id].voters[j].code = "X1"

\* C8: bulk_add_voters(count, coins) on an existing poll appends exactly n voters,
\* n being count clamped to [1,200]; each has submitted false, coins equal to the
\* given amount (10 when none is given, 0 for a negative one, 0 for a given 0),
\* the name "Uchastnik " followed by the size of voters after its insertion, and
\* a code that no other voter holds and that the reverse index maps to the poll.
C8_BulkAddVoters ==
  [][(cmd'.op = "bulk_add_voters" /\ cmd'.id \in DOMAIN polls) =>
       LET old == polls[cmd'.id].voters
           new == polls'[cmd'.id].voters
           n == IF cmd'.count.k = "undef" THEN 1
                ELSE Max(1, Min(cmd'.count.h \div 2, 200))
           c == IF cmd'.coins.k = "undef" THEN 20 ELSE Max(0, cmd'.coins.h)
       IN /\ Len(new) = Len(old) + n
          /\ \A i \in 1..Len(old) : new[i] = old[i]
          /\ \A i \in (Len(old) + 1)..Len(new) :
               /\ new[i].submitted = FALSE
               /\ new[i].coins = c
               /\ new[i].name = "Uchastnik " \o ToString(i)
               /\ new[i].code \notin DOMAIN codeToPoll
               /\ new[i].code \in DOMAIN codeToPoll'
               /\ codeToPoll'[new[i].code] = cmd'.id
               /\ \A j \in 1..Len(new) : j # i => new[j].code # new[i].code]_vars

(* ---------------- Spec: every handler, two clients ---------------- *)
\* update_voter: every field on the first voter, and an index out of range
UpdateArgs ==
  {<<jsNum(0), f>> : f \in {"code", "coins", "name", "submitted", "role"}}
    \cup {<<jsNum(2), "code">>}

Next ==
  \/ CanCreate(MaxPolls) /\ uidCount < MaxUid /\ create_poll(1)
  \/ \E c \in Clients, id \in PollIds : join_poll(c, id)
  \/ \E id \in PollIds : get_poll(id)
  \/ \E code \in {"x1", "zz"} : get_poll_by_code(code)
  \/ \E id \in PollIds : set_title(id, "T")
  \/ \E id \in PollIds, st \in {"closed", "archived"} : set_status(id, st)
  \/ \E id \in PollIds, opt \in {EmptyMap, [id |-> "o1", label |-> "A"]} :
       /\ CanAddOption(id, MaxOptions)
       /\ "id" \in DOMAIN opt \/ uidCount < MaxUid
       /\ add_option(id, opt)
  \/ \E id \in PollIds, optId \in {"o1", "junk"} : update_option(id, optId, "B")
  \/ \E id \in PollIds : delete_option(id, "o1")
  \/ \E id \in PollIds : clear_options(id)
  \/ \E id \in PollIds :
       CanAddVoters(id, MaxVoters, jsNum(2)) /\ add_voter(id, [code |-> "x1"])
  \/ \E id \in PollIds :
       CanAddVoters(id, MaxVoters, jsUndef) /\ bulk_add_voters(id, jsUndef, jsNum(0))
  \/ \E id \in PollIds, a \in UpdateArgs : update_voter(id, a[1], a[2], jsStr("x1"))
  \/ \E id \in PollIds : delete_voter(id, jsNum(0))
  \/ \E id \in PollIds : reset_submits(id)
  \/ \E id \in PollIds :
       submit_vote(id, "x1", [obj |-> TRUE, e |-> [o1 |-> jsStr("3"), junk |-> jsNum(4)]])

Spec == Init /\ [][Next]_vars

(* ---------------- claims checked under Spec ---------------- *)

\* C6: after every command, every client subscribed to a poll holds, as the last
\* snapshot it received of that poll, the poll's current state; and a command
\* that changes a poll's record emits a broadcast of the resulting state to the
\* poll's room.
C6_BroadcastConsistency ==
  [][/\ \A c \in Clients : \A id \in rooms'[c] :
          id \in DOMAIN view'[c] /\ view'[c][id] = polls'[id]
     /\ \A id \in DOMAIN polls :
          polls'[id] # polls[id] => bcast' = <<[room |-> id, poll |-> polls'[id]]>>]_vars

\* both clients are subscribed to a poll that has since got an option, a voter
\* and a vote, and the last command was broadcast
C6_Witness ==
  /\ bcast # <<>>
  /\ \E id \in DOMAIN polls :
       /\ \A c \in Clients : id \in rooms[c] /\ view[c][id] = polls[id]
       /\ polls[id].options # <<>> /\ polls[id].voters # <<>>
       /\ polls[id].votes # EmptyMap /\ polls[id].title = "T"

(* ---------------- SpecIndex: voters addressed by index ---------------- *)
\* the indices 0, 1, -1, 1.5, a missing index and the inherited key "push"
Indices == {jsNum(0), jsNum(2), jsNum(-2), jsNum(3), jsUndef, jsStr("push")}

\* the triples index, field, value of update_voter: every field on the first
\* voter, and the code or the coins through every other index
IndexUpdates ==
  { <<jsNum(0), "code", jsStr("x1")>>, <<jsNum(0), "code", jsUndef>>,
    <<jsNum(0), "coins", jsNum(6)>>, <<jsNum(0), "name", jsStr("Ann")>>,
    <<jsNum(0), "submitted", jsBool(TRUE)>>, <<jsNum(0), "role", jsStr("x1")>>,
    <<jsNum(2), "code", jsStr("v-1")>>, <<jsNum(-2), "code", jsStr("x1")>>,
    <<jsNum(3), "coins", jsNum(6)>>, <<jsUndef, "name", jsStr("Ann")>>,
    <<jsStr("push"), "coins", jsNum(6)>>, <<jsStr("push"), "code", jsStr("x1")>> }

NextIndex ==
  \/ CanCreate(IndexPolls) /\ create_poll(1)
  \/ \E id \in DOMAIN polls, code \in {"x1", "v-1"} :
       CanAddVoters(id, IndexVoters, jsNum(2)) /\ add_voter(id, [code |-> code])
  \/ \E id \in DOMAIN polls, u \in IndexUpdates : update_voter(id, u[1], u[2], u[3])
  \/ \E id \in DOMAIN polls, index \in Indices : delete_voter(id, index)
  \/ \E code \in {"x1", "v-1"} : get_poll_by_code(code)

SpecIndex == Init /\ [][NextIndex]_vars

(* ---------------- claims checked under SpecIndex ---------------- *)

\* the positions of before whose removal gives after
RemovedAt(before, after) ==
  {i \in 1..Len(before) :
     after = [j \in 1..(Len(before) - 1) |-> IF j < i THEN before[j] ELSE before[j + 1]]}

\* C11: whenever delete_voter removes a voter from an existing poll, whatever the
\* index it was sent (in range, negative, beyond the end, missing), the code of
\* the removed voter is no longer a key of the reverse index.
C11_DeleteReleasesCode ==
  [][(cmd'.op = "delete_voter" /\ cmd'.id \in DOMAIN polls) =>
       \A i \in RemovedAt(polls[cmd'.id].voters, polls'[cmd'.id].voters) :
          polls[cmd'.id].voters[i].code \notin DOMAIN codeToPoll']_vars

\* C12: every command addressed to a poll id that is not in the repository
\* leaves every poll and the reverse index unchanged and emits no broadcast;
\* submit_vote acknowledges {ok:false, error:"not found"}, join_poll and get_poll
\* acknowledge null.
C12_AbsentPollNoEffect ==
  [][(/\ cmd'.op \notin {"init", "create_poll", "get_poll_by_code"}
      /\ cmd'.id \notin DOMAIN polls) =>
       /\ polls' = polls
       /\ codeToPoll' = codeToPoll
       /\ bcast' = <<>>
       /\ view' = view
       /\ (cmd'.op = "submit_vote" =>
             ack' = [t |-> "result", ok |-> FALSE, error |-> "not found"])
       /\ (cmd'.op \in {"join_poll", "get_poll"} => ack' = [t |-> "null"])]_vars

\* a vote for an absent poll was refused with "not found" while the repository
\* holds a poll with an option, a voter and a vote, and a client is subscribed
C12_Witness ==
  /\ cmd.op = "submit_vote" /\ cmd.id \notin DOMAIN polls
  /\ ack = [t |-> "result", ok |-> FALSE, error |-> "not found"]
  /\ bcast = <<>>
  /\ \E id \in DOMAIN polls :
       /\ polls[id].options # <<>> /\ polls[id].voters # <<>> /\ polls[id].votes # EmptyMap
       /\ \E c \in Clients : id \in rooms[c]

\* the codes held by the voters of every poll other than voter i of poll id
OtherCodes(P, id, i) ==
  {P[id2].voters[j].code :
     <<id2, j>> \in {x \in UNION {{<<q, k>> : k \in 1..Len(P[q].voters)} : q \in DOMAIN P} :
                       x # <<id, i>>}}

\* C13: update_voter(field = "code", value) on a voter in range releases the old
\* code; afterwards the voter's code is the upper-cased requested code if no other
\* voter holds it, otherwise a code no other voter holds; the new code maps to
\* this poll, the old code is no key of the reverse index unless it is the new
\* code, and no other voter's code and no other reverse-index entry changes.
C13_UpdateVoterCode ==
  [][(/\ cmd'.op = "update_voter" /\ cmd'.field = "code"
      /\ cmd'.id \in DOMAIN polls
      /\ VoterAt(polls[cmd'.id].voters, cmd'.index) > 0) =>
       LET id == cmd'.id
           i == VoterAt(polls[id].voters, cmd'.index)
           old == polls[id].voters[i].code
           new == polls'[id].voters[i].code
           req == toUpperCase(StringOrEmpty(cmd'.value))
           others == OtherCodes(polls, id, i)
       IN /\ req # "" => (IF req \notin others THEN new = req ELSE new # req)
          /\ new \notin others
          /\ new \in DOMAIN codeToPoll' /\ codeToPoll'[new] = id
          /\ old # new => old \notin DOMAIN codeToPoll'
          /\ OtherCodes(polls', id, i) = others
          /\ \A q \in DOMAIN polls : Len(polls'[q].voters) = Len(polls[q].voters)
          /\ \A q \in DOMAIN polls : \A j \in 1..Len(polls[q].voters) :
               <<q, j>> # <<id, i>> => polls'[q].voters[j] = polls[q].voters[j]
          /\ DOMAIN codeToPoll' = (DOMAIN codeToPoll \ {old}) \cup {new}
          /\ \A k \in DOMAIN codeToPoll \ {old, new} : codeToPoll'[k] = codeToPoll[k]]_vars

\* C14: update_voter on an existing poll changes at most the named field of the
\* voter at index and leaves that voter's other fields, every other voter, the
\* votes, options, title and status unchanged; when index addresses no voter it
\* changes nothing and emits no broadcast.
C14_UpdateVoterFrame ==
  [][(cmd'.op = "update_voter" /\ cmd'.id \in DOMAIN polls) =>
       LET id == cmd'.id
           i == VoterAt(polls[id].voters, cmd'.index)
       IN /\ \A q \in DOMAIN polls \ {id} : polls'[q] = polls[q]
          /\ IF i > 0
             THEN /\ \A f \in {"name", "coins", "code", "submitted"} \ {cmd'.field} :
                       polls'[id].voters[i][f] = polls[id].voters[i][f]
                  /\ Len(polls'[id].voters) = Len(polls[id].voters)
                  /\ \A j \in 1..Len(polls[id].voters) :
                       j # i => polls'[id].voters[j] = polls[id].voters[j]
                  /\ polls'[id] = [polls[id] EXCEPT !.voters = polls'[id].voters]
             ELSE /\ polls' = polls
                  /\ codeToPoll' = codeToPoll
                  /\ bcast' = <<>>]_vars

(* ---------------- SpecRace: commands built on a stale snapshot ---------------- *)
\* client c looks at its last snapshot of poll id; the index of the voter
\* commands it sends next is picked from that list of voters
look(c, id) ==
  /\ id \in DOMAIN view[c]
  /\ stale' = [stale EXCEPT ![c] = view[c][id].voters]
  /\ cmd' = [op |-> "look", client |-> c, id |-> id]
  /\ ack' = NoAck
  /\ bcast' = <<>>
  /\ UNCHANGED <<polls, codeToPoll, rooms, view, uidCount, protoCode>>

\* the code asked for the voter added to a list of n voters
RaceCode(n) == IF n = 0 THEN "x1" ELSE "V-" \o ToString(n)

NextRace ==
  \/ CanCreate(RacePolls) /\ create_poll(1)
  \/ \E id \in DOMAIN polls : join_poll(2, id)
  \/ \E id \in DOMAIN polls :
       /\ CanAddVoters(id, RaceVoters, jsNum(2))
       /\ toUpperCase(RaceCode(Len(polls[id].voters))) \notin DOMAIN codeToPoll
       /\ add_voter(id, [code |-> RaceCode(Len(polls[id].voters))])
  \/ \E id \in DOMAIN polls : look(2, id)
  \/ \E id \in DOMAIN polls, j \in 0..(RaceVoters - 1) :
       update_voter(id, jsNum(2 * j), "name", jsStr("Ann"))
  \/ \E id \in DOMAIN polls, j \in 0..(RaceVoters - 1) : delete_voter(id, jsNum(2 * j))

SpecRace == Init /\ [][NextRace]_vars

\* the positions of the list of voters vs held by the voter with this code
PositionsOf(vs, code) == {k \in 1..Len(vs) : vs[k].code = code}

\* C15: update_voter and delete_voter address the voter by position in the
\* current list, whatever list the sender was looking at: a command with index j
\* acts on the voter now at position j (on none when j is the current length or
\* more), and when the sender's list shows another voter at position j, the voter
\* it shows is left where and as it is.
C15_StaleIndexHitsAnotherVoter ==
  [][(/\ cmd'.op \in {"update_voter", "delete_voter"}
      /\ cmd'.id \in DOMAIN polls /\ cmd'.index.k = "num") =>
       LET before == polls[cmd'.id].voters
           after == polls'[cmd'.id].voters
           j == cmd'.index.h \div 2 + 1
       IN /\ IF j > Len(before) THEN after = before
             ELSE IF cmd'.op = "delete_voter" THEN j \in RemovedAt(before, after)
             ELSE /\ Len(after) = Len(before)
                  /\ \A k \in 1..Len(before) : k # j => after[k] = before[k]
                  /\ after[j] = [before[j] EXCEPT ![cmd'.field] = after[j][cmd'.field]]
                  /\ cmd'.field = "name" => after[j].name = StringOrEmpty(cmd'.value)
          /\ \A c \in Clients :
               (/\ j <= Len(stale[c])
                /\ (j > Len(before) \/ before[j].code # stale[c][j].code)) =>
                  \A k \in PositionsOf(before, stale[c][j].code) :
                     /\ k # j
                     /\ \E m \in PositionsOf(after, stale[c][j].code) : after[m] = before[k]]_vars

\* a client looked at three voters; after a deletion at index 0 by someone else,
\* a delete_voter with index 1, which that list shows as the second voter, has
\* removed the third one: the second voter is the only one left
C15_Witness ==
  /\ cmd.op = "delete_voter" /\ cmd.index = jsNum(2) /\ cmd.id \in DOMAIN polls
  /\ \E c \in Clients :
       /\ Len(stale[c]) = 3
       /\ polls[cmd.id].voters = <<stale[c][2]>>
       /\ stale[c][3].code \notin DOMAIN codeToPoll

(* ---------------- further claims checked under SpecVote ---------------- *)

\* C16: the ids of the options of a poll are pairwise distinct, after any
\* sequence of add_option (with or without an id given by the client),
\* update_option, delete_option and clear_options.
C16_OptionIdsDistinct ==
  \A id \in DOMAIN polls :
    \A i, j \in 1..Len(polls[id].options) :
      i # j => polls[id].options[i].id # polls[id].options[j].id

\* C17: votes are keyed by the upper-cased code and the last write wins: after a
\* successful submit_vote the allocation stored under the upper-cased code is
\* exactly the sanitized allocation of that command, whatever was stored under
\* the code (in any letter case) before; every key of votes is its own upper-cased
\* form; the allocations under the other keys are unchanged.
C17_LastWriteWins ==
  [][(cmd'.op = "submit_vote" /\ cmd'.id \in DOMAIN polls /\ ack' = AckOk) =>
       LET old == polls[cmd'.id].votes
           new == polls'[cmd'.id].votes
           key == toUpperCase(cmd'.code)
       IN /\ DOMAIN new = DOMAIN old \cup {key}
          /\ new[key] = cleanAllocations(cmd'.allocations)
          /\ \A k \in DOMAIN new : toUpperCase(k) = k
          /\ \A k \in DOMAIN old \ {key} : new[k] = old[k]]_vars

\* a vote sent as X1 whose entries are all dropped is stored as the empty
\* allocation under X1, votes has no key x1, and the vote under ZZ is still there
C17_Witness ==
  /\ cmd.op = "submit_vote" /\ cmd.code = "X1" /\ cmd.id \in DOMAIN polls /\ ack = AckOk
  /\ LET v == polls[cmd.id].votes
     IN /\ DOMAIN v = {"X1", "ZZ"}
        /\ cmd.allocations.obj /\ v["X1"] = EmptyMap /\ "o1" \in DOMAIN v["ZZ"]
        /\ \E i \in 1..Len(polls[cmd.id].voters) :
             polls[cmd.id].voters[i].code = "X1" /\ polls[cmd.id].voters[i].submitted

(* ---------------- further claims checked under SpecIndex ---------------- *)

\* the polls that have a voter whose code is c, letter case ignored
HoldersOf(c) ==
  {id \in DOMAIN polls :
     \E i \in 1..Len(polls[id].voters) :
        toUpperCase(polls[id].voters[i].code) = toUpperCase(c)}

\* C18: the keys of the reverse index are exactly the codes of the voters now
\* present in the polls, each mapped to the poll that holds the voter; and
\* get_poll_by_code(c) answers with a poll P exactly when P has a voter whose
\* code is c, letter case ignored (null when there is none).
C18_ReverseIndexExact ==
  /\ DOMAIN codeToPoll =
       UNION {{polls[id].voters[i].code : i \in 1..Len(polls[id].voters)} : id \in DOMAIN polls}
  /\ \A id \in DOMAIN polls : \A i \in 1..Len(polls[id].voters) :
       codeToPoll[polls[id].voters[i].code] = id
  /\ cmd.op = "get_poll_by_code" =>
       IF HoldersOf(cmd.code) = {} THEN ack = AckNull
       ELSE \E id \in HoldersOf(cmd.code) : ack = AckPoll(polls[id])

(* ---------------- SpecIso: two polls side by side ---------------- *)
\* The first poll created is sent every command; the second is sent the
\* commands that give it an option, a voter and a vote.  Client 1 creates the
\* first poll and client 2 the second, and client 1 can join the second.
FirstPoll == DOMAIN polls \cap {uid(1)}

NextIso ==
  \/ CanCreate(IsoPolls) /\ create_poll(Cardinality(DOMAIN polls) + 1)
  \/ \E id \in DOMAIN polls \ FirstPoll : join_poll(1, id)
  \/ \E id \in FirstPoll : set_title(id, "T")
  \/ \E id \in FirstPoll : set_status(id, "open")
  \/ \E id \in DOMAIN polls :
       CanAddOption(id, IsoOptions) /\ add_option(id, [id |-> "o1", label |-> "A"])
  \/ \E id \in FirstPoll : update_option(id, "o1", "B")
  \/ \E id \in FirstPoll : delete_option(id, "o1")
  \/ \E id \in FirstPoll : clear_options(id)
  \/ \E id \in DOMAIN polls :
       CanAddVoters(id, IsoVoters, jsNum(2)) /\ add_voter(id, [code |-> "x1"])
  \/ \E id \in FirstPoll :
       CanAddVoters(id, IsoVoters, jsUndef) /\ bulk_add_voters(id, jsUndef, jsUndef)
  \/ \E id \in FirstPoll : update_voter(id, jsNum(0), "code", jsStr("x1"))
  \/ \E id \in FirstPoll : delete_voter(id, jsNum(0))
  \/ \E id \in FirstPoll : reset_submits(id)
  \/ \E id \in DOMAIN polls :
       submit_vote(id, "x1", [obj |-> TRUE, e |-> [o1 |-> jsStr("3")]])

SpecIso == Init /\ [][NextIso]_vars

\* C19: a command addressed to poll P changes no other poll's record, and the
\* snapshot it emits goes to the room of P and reaches only sockets subscribed to
\* P; create_poll changes no existing poll.
C19_PollIsolation ==
  [][LET target == IF "id" \in DOMAIN cmd' THEN {cmd'.id} ELSE {}
     IN /\ \A q \in DOMAIN polls \ target : polls'[q] = polls[q]
        /\ bcast' # <<>> => bcast'[1].room \in target
        /\ \A c \in Clients : \A q \in DOMAIN view'[c] :
             (q \notin DOMAIN view[c] \/ view'[c][q] # view[c][q]) =>
                /\ q \in rooms'[c]
                /\ q \in target \/ (cmd'.op = "create_poll" /\ q \notin DOMAIN polls)]_vars

\* add_voter asked for x1 in one poll while the voter of the other poll holds
\* X1: the new voter got a generated code, the other poll still has its voter,
\* and a client subscribed to the other poll only has no snapshot of this one
C19_Witness ==
  /\ cmd.op = "add_voter" /\ cmd.id \in DOMAIN polls
  /\ polls[cmd.id].voters # <<>> /\ polls[cmd.id].voters[1].code \in RandCodes
  /\ \E q \in DOMAIN polls \ {cmd.id} :
       /\ polls[q].voters # <<>> /\ polls[q].voters[1].code = "X1"
       /\ codeToPoll["X1"] = q
       /\ polls[q].votes # EmptyMap
       /\ \E c \in Clients : rooms[c] = {q} /\ DOMAIN view[c] = {q} /\ view[c][q] = polls[q]

(* ---------------- SpecBudget: coins and allocations ---------------- *)
\* {o1: 3}, {o1: 3, o2: 4} and {o1: 12}
BudgetAllocs ==
  { [obj |-> TRUE, e |-> [o1 |-> jsNum(6)]],
    [obj |-> TRUE, e |-> [o1 |-> jsNum(6), o2 |-> jsNum(8)]],
    [obj |-> TRUE, e |-> [o1 |-> jsNum(24)]] }

NextBudget ==
  \/ CanCreate(BudgetPolls) /\ create_poll(1)
  \/ \E id \in DOMAIN polls, voter \in {[code |-> "x1"], [code |-> "v-1", coins |-> jsNum(10)]} :
       CanAddVoters(id, BudgetVoters, jsNum(2)) /\ add_voter(id, voter)
  \/ \E id \in DOMAIN polls, coins \in {jsNum(4), jsNum(16)} :
       update_voter(id, jsNum(0), "coins", coins)
  \/ \E id \in DOMAIN polls, code \in {"x1", "v-1"}, a \in BudgetAllocs :
       submit_vote(id, code, a)

SpecBudget == Init /\ [][NextBudget]_vars

\* the sum of the amounts of an allocation
RECURSIVE SumOf(_)
SumOf(a) ==
  IF DOMAIN a = {} THEN 0
  ELSE LET k == CHOOSE x \in DOMAIN a : TRUE
       IN a[k] + SumOf([x \in DOMAIN a \ {k} |-> a[x]])

\* C20: for every voter of every poll, the amounts of the allocation stored under
\* the voter's code add up to at most the voter's coins.
C20_BudgetBound ==
  \A id \in DOMAIN polls : \A i \in 1..Len(polls[id].voters) :
    LET v == polls[id].voters[i]
    IN v.code \in DOMAIN polls[id].votes => SumOf(polls[id].votes[v.code]) <= v.coins
====
